---------------------------- MODULE Spec2Model ----------------------------
(***************************************************************************)
(* Model of backend/main.py: the POST /classify handler                    *)
(* (classify_video_effect).  One request is followed from the extension    *)
(* check through the temporary file, the upload to the Provider, the       *)
(* readiness poll loop, the generate-content call and the parsing and      *)
(* normalisation of the completion text.                                   *)
(*                                                                         *)
(* Strings that the code inspects character by character (the file name)   *)
(* are sequences of one-character strings.  The completion text is a       *)
(* sequence of lexical chunks (a fence, whitespace, junk, one JSON value). *)
(* JSON values are tagged records [t |-> type, v |-> payload].  Floats are *)
(* integers counting hundredths (0.92 is 92).                              *)
(***************************************************************************)
EXTENDS Integers, Sequences, FiniteSets, TLC

VARIABLES
    pc,             \* "start", "staged" (before line 103), "poll" (line 111), "done"
    filename,       \* file.filename, a sequence of characters
    file_ext,       \* line 86
    tempCreated,    \* the NamedTemporaryFile of line 94 was created
    tempOpen,       \* its handle is open (inside the with block)
    tempExists,     \* the file is on disk
    state,          \* video_file.state.name, "NONE" before the upload
    elapsed_time,   \* line 109
    response_text,  \* response.text of line 192, NoResponse before the call
    status,         \* HTTP status of the response, 0 while running
    detail,         \* which detail string the HTTPException carries
    result,         \* the returned dict (NoResult unless status = 200)
    nUploads,       \* calls of genai.upload_file
    nGetFile,       \* calls of genai.get_file
    nGenerate,      \* calls of gemini_model.generate_content
    nAnswers,       \* state answers received from the Provider
    nProcessing     \* how many of them were PROCESSING

vars == <<pc, filename, file_ext, tempCreated, tempOpen, tempExists, state,
          elapsed_time, response_text, status, detail, result,
          nUploads, nGetFile, nGenerate, nAnswers, nProcessing>>

---------------------------------------------------------------------------
(* Bounds of the model. *)

\* longest stem put in front of a file-name tail
MaxStemLen == 2
\* longest caption_effects.effects list of a completion
MaxEffects == 2

---------------------------------------------------------------------------
(* Characters and file names: lines 84-91. *)

RECURSIVE SeqsUpTo(_, _)
SeqsUpTo(S, n) ==
    IF n = 0 THEN {<<>>}
    ELSE LET shorter == SeqsUpTo(S, n - 1)
         IN  shorter \cup {Append(s, c) : s \in {q \in shorter : Len(q) = n - 1}, c \in S}

\* str.lower() on the characters the model uses
LowerChar(c) ==
    CASE c = "M" -> "m"
      [] c = "P" -> "p"
      [] c = "O" -> "o"
      [] c = "V" -> "v"
      [] c = "A" -> "a"
      [] c = "I" -> "i"
      [] c = "X" -> "x"
      [] OTHER   -> c

Lower(s) == [i \in 1..Len(s) |-> LowerChar(s[i])]

\* str.rfind of a single character, 0-based, -1 when absent
RFind(s, c) ==
    LET hits == {i \in 1..Len(s) : s[i] = c}
    IN  IF hits = {} THEN -1
        ELSE (CHOOSE i \in hits : \A j \in hits : j <= i) - 1

\* a faulty variant of SplitExt, to test the properties against: the suffix from the last dot, leading dots not skipped
SplitExtNaive(p) ==
    LET sepIndex == RFind(p, "/")
        dotIndex == RFind(p, ".")
    IN  IF dotIndex > sepIndex THEN SubSeq(p, dotIndex + 1, Len(p)) ELSE <<>>

\* os.path.splitext(p)[1] (posixpath): the suffix from the last dot of the
\* last path component, unless only dots precede that dot in the component
SplitExt(p) ==
    LET sepIndex == RFind(p, "/")
        dotIndex == RFind(p, ".")
    IN  IF dotIndex > sepIndex
           /\ \E k \in (sepIndex + 1)..(dotIndex - 1) : p[k + 1] # "."
        THEN SubSeq(p, dotIndex + 1, Len(p))
        ELSE <<>>

allowed_extensions ==
    { <<".", "m", "p", "4">>, <<".", "m", "o", "v">>, <<".", "a", "v", "i">> }

\* lines 86-87: the extension check
ExtOf(name) == SplitExt(Lower(name))

StemChars == {".", "/", "x", "X"}

Tails ==
    { <<>>,
      <<".", "m", "p", "4">>, <<".", "M", "P", "4">>, <<".", "M", "o", "V">>,
      <<".", "m", "o", "v">>, <<".", "a", "v", "i">>, <<".", "A", "v", "I">>,
      <<".", "m", "p", "3">>, <<"m", "p", "4">>, <<".", "m", "p", "4", ".">>,
      <<".", "m", "p", "4", "x">>, <<".", "m", "p", "4", "/", "x">>,
      <<".", "t", "x", "t">>, <<".", "a", "v", "i", ".", "x">> }

Filenames == {s \o t : s \in SeqsUpTo(StemChars, MaxStemLen), t \in Tails}

---------------------------------------------------------------------------
(* JSON values as json.loads returns them. *)

Absent == [t |-> "absent", v |-> 0]       \* the key is not in the dict
JNull == [t |-> "null", v |-> 0]
JNaN == [t |-> "nan", v |-> 0]            \* json.loads accepts NaN
JStr(s) == [t |-> "str", v |-> s]
JNum(n) == [t |-> "num", v |-> n]
JBool(b) == [t |-> "bool", v |-> b]
JList(l) == [t |-> "list", v |-> l]
JObj(o) == [t |-> "obj", v |-> o]

Has(x) == x.t # "absent"

\* the taxonomies of lines 209-212 and 220-225
valid_effects ==
    << "hard_cut", "crossfade", "whip_pan", "zoom_cut", "speed_ramp",
       "shake_transition", "flash_frame", "reverse_effect", "match_cut", "unknown" >>

valid_caption_effects ==
    << "typewriter", "pop_up", "fade_in", "slide_in", "kinetic_typography",
       "glitch_text", "neon_glow", "3d_text", "handwritten", "bounce",
       "shake", "highlight", "word_by_word", "scale_in", "rotate_in",
       "split_text", "stroke_reveal", "color_wipe", "none" >>

\* Python's  x in <list of str>
InStrList(x, l) == x.t = "str" /\ \E i \in 1..Len(l) : l[i] = x.v

\* Python's  key in <container>  for a JSON value: the answer, or TypeError
\* for a value that is no container.  A str container is a substring test;
\* the strings of the model contain no key as a substring unless they equal it.
KeyIn(key, c) ==
    CASE c.t = "obj"  -> [exc |-> "none", ans |-> Has(c.v[key])]
      [] c.t = "list" -> [exc |-> "none",
                          ans |-> \E i \in 1..Len(c.v) : c.v[i].t = "str" /\ c.v[i].v = key]
      [] c.t = "str"  -> [exc |-> "none", ans |-> c.v = key]
      [] OTHER        -> [exc |-> "TypeError", ans |-> FALSE]

---------------------------------------------------------------------------
(* The completion text: lines 192-200. *)

Fence == [k |-> "fence", j |-> Absent]             \* ```
FenceJson == [k |-> "fence_json", j |-> Absent]    \* ```json
Ws == [k |-> "ws", j |-> Absent]                   \* whitespace, newlines
Junk == [k |-> "junk", j |-> Absent]               \* text that is no JSON
Json(j) == [k |-> "json", j |-> j]                 \* the text of one JSON value

\* no completion has been received
NoResponse == << [k |-> "no_response", j |-> Absent] >>

RECURSIVE LStrip(_)
LStrip(s) == IF s # <<>> /\ Head(s).k = "ws" THEN LStrip(Tail(s)) ELSE s

RECURSIVE RStrip(_)
RStrip(s) ==
    IF s # <<>> /\ s[Len(s)].k = "ws" THEN RStrip(SubSeq(s, 1, Len(s) - 1)) ELSE s

\* str.strip()
Strip(s) == RStrip(LStrip(s))

\* lines 194-195
StripOpener(s) == IF s # <<>> /\ Head(s).k = "fence_json" THEN Tail(s) ELSE s

\* lines 196-197
StripCloser(s) ==
    IF s # <<>> /\ s[Len(s)].k = "fence" THEN SubSeq(s, 1, Len(s) - 1) ELSE s

\* lines 192-198
Unfence(text) == Strip(StripCloser(StripOpener(Strip(text))))

\* line 200: json.loads
JsonLoads(s) ==
    IF Len(s) = 1 /\ s[1].k = "json"
    THEN [exc |-> "none", val |-> s[1].j]
    ELSE [exc |-> "JSONDecodeError", val |-> Absent]

---------------------------------------------------------------------------
(* Validation and normalisation of the parsed value: lines 202-254. *)

NoResult ==
    [effect |-> Absent, confidence |-> Absent, description |-> Absent,
     caption_effects |-> Absent, model_used |-> Absent]

Ok(v) == [exc |-> "none", val |-> v]
Raise(kind) == [exc |-> kind, val |-> NoResult]

required_fields == << "effect", "confidence", "description" >>

\* lines 203-206: the first required field that is missing raises ValueError;
\* a parsed value that is no container raises TypeError at the first test
CheckRequired(r) ==
    LET chk(i) == KeyIn(required_fields[i], r)
        bad == {i \in 1..Len(required_fields) : chk(i).exc # "none" \/ ~chk(i).ans}
    IN  IF bad = {} THEN "none"
        ELSE LET i == CHOOSE m \in bad : \A n \in bad : m <= n
             IN  IF chk(i).exc # "none" THEN chk(i).exc ELSE "ValueError"

\* lines 213-214
CoerceEffect(e) == IF InStrList(e, valid_effects) THEN e ELSE JStr("unknown")

\* the str values float() accepts, among the strings of the model
FloatLiteral(s) == IF s = "0.5" THEN JNum(50) ELSE Absent

\* float(x) of line 217
ToFloat(x) ==
    CASE x.t = "num"  -> Ok(x)
      [] x.t = "nan"  -> Ok(x)
      [] x.t = "bool" -> Ok(JNum(IF x.v THEN 100 ELSE 0))
      [] x.t = "str"  -> IF Has(FloatLiteral(x.v)) THEN Ok(FloatLiteral(x.v))
                         ELSE Raise("ValueError")
      [] OTHER        -> Raise("TypeError")

\* float comparison: false whenever a NaN takes part
PyLt(a, b) == a.t = "num" /\ b.t = "num" /\ a.v < b.v

\* the builtins min(a, b) and max(a, b): the first argument wins a tie
PyMin(a, b) == IF PyLt(b, a) THEN b ELSE a
PyMax(a, b) == IF PyLt(a, b) THEN b ELSE a

\* a faulty variant of Clamp, to test the properties against: only the lower end is saturated
ClampLowOnly(f) == PyMax(JNum(0), f)

\* line 217: max(0.0, min(1.0, f))
Clamp(f) == PyMax(JNum(0), PyMin(JNum(100), f))

\* a faulty variant of DefaultCaption, to test the properties against: the description is left empty
DefaultCaptionEmpty ==
    JObj([detected |-> JBool(FALSE), effects |-> JList(<< JStr("none") >>),
          text_content |-> JStr(""), description |-> JStr("")])

\* lines 228-233
DefaultCaption ==
    JObj([detected |-> JBool(FALSE), effects |-> JList(<< JStr("none") >>),
          text_content |-> JStr(""), description |-> JStr("No text effects analyzed")])

IsCaptionEffect(e) == InStrList(e, valid_caption_effects)

\* a faulty variant of FilterEffects, to test the properties against: the  or ["none"]  is dropped
FilterEffectsNoDefault(e) ==
    CASE e.t = "list" -> Ok(JList(SelectSeq(e.v, IsCaptionEffect)))
      [] e.t = "str"  -> Ok(JList(<< >>))
      [] e.t = "obj"  -> Ok(JList(<< >>))
      [] OTHER        -> Raise("TypeError")

\* lines 238-241: the comprehension iterates the value; a str yields its
\* characters and a dict its keys (none of them a caption effect here), and
\* null, a number or a bool is not iterable
FilterEffects(e) ==
    CASE e.t = "list" -> LET kept == SelectSeq(e.v, IsCaptionEffect)
                         IN  Ok(JList(IF kept = << >> THEN << JStr("none") >> ELSE kept))
      [] e.t = "str"  -> Ok(JList(<< JStr("none") >>))
      [] e.t = "obj"  -> Ok(JList(<< JStr("none") >>))
      [] OTHER        -> Raise("TypeError")

\* lines 245-246
DefaultDetected(effects) == JBool(effects # JList(<< JStr("none") >>))

\* lines 227-252
NormalizeCaption(c) ==
    IF ~Has(c) THEN Ok(DefaultCaption)
    ELSE LET k == KeyIn("effects", c)
         IN  IF k.exc # "none" THEN Raise(k.exc)
             ELSE IF c.t # "obj" THEN Raise("TypeError")
             ELSE LET eff == IF k.ans THEN FilterEffects(c.v.effects)
                                      ELSE Ok(JList(<< JStr("none") >>))
                  IN  IF eff.exc # "none" THEN Raise(eff.exc)
                      ELSE Ok(JObj(
                          [effects |-> eff.val,
                           detected |-> IF Has(c.v.detected) THEN c.v.detected
                                        ELSE DefaultDetected(eff.val),
                           text_content |-> IF Has(c.v.text_content) THEN c.v.text_content
                                            ELSE JStr(""),
                           description |-> IF Has(c.v.description) THEN c.v.description
                                           ELSE JStr("")]))

\* lines 192-257: the body of the inner try
ParseAndNormalize(text) ==
    LET parsed == JsonLoads(Unfence(text))
    IN  IF parsed.exc # "none" THEN Raise(parsed.exc)
        ELSE LET r == parsed.val
                 req == CheckRequired(r)
             IN  IF req # "none" THEN Raise(req)
                 ELSE IF r.t # "obj" THEN Raise("TypeError")
                 ELSE LET conf == ToFloat(r.v.confidence)
                          cap == NormalizeCaption(r.v.caption_effects)
                      IN  IF conf.exc # "none" THEN Raise(conf.exc)
                          ELSE IF cap.exc # "none" THEN Raise(cap.exc)
                          ELSE Ok([effect |-> CoerceEffect(r.v.effect),
                                   confidence |-> Clamp(conf.val),
                                   description |-> r.v.description,
                                   caption_effects |-> cap.val,
                                   model_used |-> JStr("gemini-latest")])

---------------------------------------------------------------------------
(* Exceptions and the handlers of lines 259-274. *)

HTTPException(code, d) == [kind |-> "HTTPException", status_code |-> code, detail |-> d]
Exception(kind) == [kind |-> kind, status_code |-> 0, detail |-> "none"]

\* a faulty variant of InnerHandler, to test the properties against: except json.JSONDecodeError alone
InnerHandlerJsonOnly(e) ==
    IF e.kind = "JSONDecodeError"
    THEN HTTPException(500, "parse_failed")
    ELSE e

\* lines 259-265: except (json.JSONDecodeError, ValueError)
InnerHandler(e) ==
    IF e.kind \in {"JSONDecodeError", "ValueError"}
    THEN HTTPException(500, "parse_failed")
    ELSE e

\* a faulty variant of OuterHandler, to test the properties against: no  except HTTPException: raise
OuterHandlerCatchAll(e) == HTTPException(500, "processing_failed")

\* lines 267-274
OuterHandler(e) ==
    IF e.kind = "HTTPException" THEN e
    ELSE HTTPException(500, "processing_failed")

---------------------------------------------------------------------------
(* The Provider's answers and completions the model draws from. *)

\* the states of a remote file handle: the two the code names (lines 111 and
\* 122) and the one it waits for (line 105)
States == {"PROCESSING", "ACTIVE", "FAILED"}

EffectElems == {JStr("fade_in"), JStr("3d_text"), JStr("sparkle"), JStr("none")}

EffectsValues ==
    {Absent, JNull, JStr("fade_in")}
        \cup {JList(l) : l \in SeqsUpTo(EffectElems, MaxEffects)}

CaptionValues ==
    {Absent, JNull, JStr("fade_in")}
        \cup {JObj([effects |-> e, detected |-> d, text_content |-> t, description |-> x]) :
                e \in EffectsValues,
                d \in {Absent, JBool(TRUE), JBool(FALSE)},
                t \in {Absent, JStr("hello")},
                x \in {Absent, JStr("letters fade in")}}

Obj(e, c, d, cap) ==
    JObj([effect |-> e, confidence |-> c, description |-> d,
          caption_effects |-> cap, model_used |-> Absent])

Objects ==
    {Obj(e, c, d, cap) :
        e \in {Absent, JStr("crossfade"), JStr("sparkle_wipe"), JNum(7)},
        c \in {Absent, JNum(-30), JNum(50), JNum(92), JNum(170),
               JStr("0.5"), JStr("high"), JNull, JNaN},
        d \in {Absent, JStr("dissolve")},
        cap \in CaptionValues}

\* valid JSON that is no object
NonObjects ==
    {JList(<< >>), JNum(5), JNull, JStr("hello"),
     JList(<< JStr("effect"), JStr("confidence"), JStr("description") >>)}

GoodBody == Obj(JStr("crossfade"), JNum(92), JStr("dissolve"), Absent)

CaptionBody ==
    Obj(JStr("whip_pan"), JNum(170), JStr("pan"),
        JObj([effects |-> JList(<< JStr("sparkle"), JStr("fade_in") >>), detected |-> Absent,
              text_content |-> JStr("hello"), description |-> Absent]))

\* the ways a body is wrapped in fences, whitespace and junk
Wrapped(b) ==
    { << Json(b) >>,
      << Ws, Json(b), Ws >>,
      << FenceJson, Ws, Json(b), Ws, Fence >>,
      << Ws, FenceJson, Json(b), Fence, Ws >>,
      << FenceJson, Ws, Json(b) >>,
      << Json(b), Ws, Fence >>,
      << Fence, Ws, Json(b), Ws, Fence >>,
      << FenceJson, Ws, Json(b), Ws, Fence, Ws, Junk >>,
      << Junk, Json(b) >>,
      << Json(b), Json(b) >> }

Completions ==
    {<< Json(b) >> : b \in Objects \cup NonObjects}
        \cup Wrapped(GoodBody) \cup Wrapped(CaptionBody)
        \cup {<< >>, << Ws >>, << Junk >>, << FenceJson, Fence >>, << Fence >>}

SmallCompletions ==
    { << Json(GoodBody) >>,
      << FenceJson, Ws, Json(CaptionBody), Ws, Fence >>,
      << Junk >>,
      << Json(Obj(JStr("crossfade"), Absent, JStr("dissolve"), Absent)) >>,
      << Json(JNum(5)) >> }

---------------------------------------------------------------------------
(* The request: lines 84-274. *)

max_wait_time == 120
wait_interval == 2

\* line 94: NamedTemporaryFile(suffix=file_ext, delete=False)
delete == FALSE

\* line 111: the condition of the while loop
StillProcessing(s) == s = "PROCESSING"

\* a faulty variant of TimedOut, to test the properties against: > instead of >=
TimedOutLate(e) == e > max_wait_time

\* line 112
TimedOut(e) == e >= max_wait_time

\* a faulty variant of Elapse, to test the properties against: the interval is assigned, not added
ElapseAssign(e) == wait_interval

\* line 118
Elapse(e) == e + wait_interval

\* a faulty variant of IsFailed, to test the properties against: the FAILED state is not checked
IsFailedNever(s) == FALSE

\* line 122
IsFailed(s) == s = "FAILED"

Init(names) ==
    /\ pc = "start"
    /\ filename \in names
    /\ file_ext = << >>
    /\ tempCreated = FALSE
    /\ tempOpen = FALSE
    /\ tempExists = FALSE
    /\ state = "NONE"
    /\ elapsed_time = 0
    /\ response_text = NoResponse
    /\ status = 0
    /\ detail = "none"
    /\ result = NoResult
    /\ nUploads = 0
    /\ nGetFile = 0
    /\ nGenerate = 0
    /\ nAnswers = 0
    /\ nProcessing = 0

\* leaving the with block of line 94: the handle is closed, and the file is
\* removed only when it was created with delete=True
LeaveWith ==
    /\ tempOpen' = FALSE
    /\ tempExists' = IF delete THEN FALSE ELSE tempExists

\* an exception e raised inside the try of line 95 ends the request
Fail(e) ==
    /\ status' = OuterHandler(e).status_code
    /\ detail' = OuterHandler(e).detail
    /\ result' = NoResult
    /\ pc' = "done"
    /\ LeaveWith

\* a state answer s of the Provider is stored in video_file
Answer(s) ==
    /\ state' = s
    /\ nAnswers' = nAnswers + 1
    /\ nProcessing' = nProcessing + (IF s = "PROCESSING" THEN 1 ELSE 0)

\* lines 84-99: the extension check, then the temporary file
Validate ==
    /\ pc = "start"
    /\ file_ext' = ExtOf(filename)
    /\ IF file_ext' \notin allowed_extensions
       THEN /\ status' = 400
            /\ detail' = "unsupported_file_type"
            /\ pc' = "done"
            /\ UNCHANGED <<tempCreated, tempOpen, tempExists>>
       ELSE /\ tempCreated' = TRUE
            /\ tempOpen' = TRUE
            /\ tempExists' = TRUE
            /\ pc' = "staged"
            /\ UNCHANGED <<status, detail>>
    /\ UNCHANGED <<filename, state, elapsed_time, response_text, result,
                   nUploads, nGetFile, nGenerate, nAnswers, nProcessing>>

\* line 103: genai.upload_file returns a handle in one of the states S
Upload(S) ==
    /\ pc = "staged"
    /\ nUploads' = nUploads + 1
    /\ \E s \in S : Answer(s)
    /\ pc' = "poll"
    /\ UNCHANGED <<filename, file_ext, tempCreated, tempOpen, tempExists, elapsed_time,
                   response_text, status, detail, result, nGetFile, nGenerate>>

\* line 103: genai.upload_file raises
UploadRaises ==
    /\ pc = "staged"
    /\ nUploads' = nUploads + 1
    /\ Fail(Exception("Exception"))
    /\ UNCHANGED <<filename, file_ext, tempCreated, state, elapsed_time, response_text,
                   nGetFile, nGenerate, nAnswers, nProcessing>>

\* lines 111-116: still PROCESSING when the budget is used up
PollTimeout ==
    /\ pc = "poll"
    /\ StillProcessing(state)
    /\ TimedOut(elapsed_time)
    /\ Fail(HTTPException(408, "timed_out"))
    /\ UNCHANGED <<filename, file_ext, tempCreated, state, elapsed_time, response_text,
                   nUploads, nGetFile, nGenerate, nAnswers, nProcessing>>

\* lines 111-120: sleep, then genai.get_file answers
PollQuery ==
    /\ pc = "poll"
    /\ StillProcessing(state)
    /\ ~TimedOut(elapsed_time)
    /\ elapsed_time' = Elapse(elapsed_time)
    /\ nGetFile' = nGetFile + 1
    /\ \E s \in States : Answer(s)
    /\ UNCHANGED <<pc, filename, file_ext, tempCreated, tempOpen, tempExists,
                   response_text, status, detail, result, nUploads, nGenerate>>

\* lines 111-119: sleep, then genai.get_file raises
PollRaises ==
    /\ pc = "poll"
    /\ StillProcessing(state)
    /\ ~TimedOut(elapsed_time)
    /\ elapsed_time' = Elapse(elapsed_time)
    /\ nGetFile' = nGetFile + 1
    /\ Fail(Exception("Exception"))
    /\ UNCHANGED <<filename, file_ext, tempCreated, state, response_text,
                   nUploads, nGenerate, nAnswers, nProcessing>>

\* lines 122-126
ProcessingFailed ==
    /\ pc = "poll"
    /\ ~StillProcessing(state)
    /\ IsFailed(state)
    /\ Fail(HTTPException(400, "processing_failed_format"))
    /\ UNCHANGED <<filename, file_ext, tempCreated, state, elapsed_time, response_text,
                   nUploads, nGetFile, nGenerate, nAnswers, nProcessing>>

\* lines 187-265: generate_content answers with one of the texts C, which is
\* parsed and normalised
Analyze(C) ==
    /\ pc = "poll"
    /\ ~StillProcessing(state)
    /\ ~IsFailed(state)
    /\ nGenerate' = nGenerate + 1
    /\ \E text \in C :
          /\ response_text' = text
          /\ LET out == ParseAndNormalize(text)
             IN  IF out.exc = "none"
                 THEN /\ status' = 200
                      /\ detail' = "none"
                      /\ result' = out.val
                      /\ pc' = "done"
                      /\ LeaveWith
                 ELSE Fail(InnerHandler(Exception(out.exc)))
    /\ UNCHANGED <<filename, file_ext, tempCreated, state, elapsed_time,
                   nUploads, nGetFile, nAnswers, nProcessing>>

\* line 187: generate_content raises
AnalyzeRaises ==
    /\ pc = "poll"
    /\ ~StillProcessing(state)
    /\ ~IsFailed(state)
    /\ nGenerate' = nGenerate + 1
    /\ Fail(Exception("Exception"))
    /\ UNCHANGED <<filename, file_ext, tempCreated, state, elapsed_time, response_text,
                   nUploads, nGetFile, nAnswers, nProcessing>>

Next ==
    \/ Validate
    \/ Upload(States)
    \/ UploadRaises
    \/ PollTimeout
    \/ PollQuery
    \/ PollRaises
    \/ ProcessingFailed
    \/ Analyze(SmallCompletions)
    \/ AnalyzeRaises

Spec == Init(Filenames) /\ [][Next]_vars

\* the normaliser on every completion of the model: the Provider answers
\* ACTIVE at once and the file name is fixed
NormFilenames == { <<"x", ".", "m", "p", "4">>, <<"x", ".", "t", "x", "t">> }

NextNorm ==
    \/ Validate
    \/ Upload({"ACTIVE"})
    \/ Analyze(Completions)

SpecNorm == Init(NormFilenames) /\ [][NextNorm]_vars

---------------------------------------------------------------------------
(* The properties. *)

\* the JSON value the completion text held, once it has been received
ParsedBody == JsonLoads(Unfence(response_text)).val

\* C1: once a request that created a temporary upload file has ended, on any
\* exit path, the temporary file no longer exists.
C1_TempFileRemoved == (pc = "done" /\ tempCreated) => ~tempExists

\* C2: generate-content is called only when the last observed state of the
\* remote file handle is ACTIVE (never PROCESSING or FAILED), and once.
C2_GenerateOnlyWhenActive == nGenerate > 0 => (state = "ACTIVE" /\ nGenerate = 1)

C2_Witness == nGenerate = 1 /\ state = "ACTIVE" /\ nGetFile >= 3 /\ status = 200

\* C3: when the Provider has answered PROCESSING k times and then ACTIVE,
\* with 2k within the budget, k+1 state answers were received (the upload's
\* and k from get_file), the accumulated wait is 2 per PROCESSING answer,
\* and the request goes on to the analysis: no 408 or 400 is raised and it
\* does not end without the generate-content call.
C3_PollerSuccess ==
    (state = "ACTIVE" /\ wait_interval * nProcessing <= max_wait_time) =>
        /\ nAnswers = nProcessing + 1
        /\ nGetFile = nProcessing
        /\ elapsed_time = wait_interval * nProcessing
        /\ pc \in {"poll", "done"}
        /\ status \notin {400, 408}
        /\ (pc = "done" => nGenerate = 1)

C3_Witness ==
    /\ state = "ACTIVE"
    /\ elapsed_time = max_wait_time
    /\ nAnswers = nProcessing + 1
    /\ status = 200

\* C4: while every answer is PROCESSING the request ends with 408 exactly
\* when the accumulated wait has reached 120: at that point the timeout is
\* the only step left, a 408 is only ever raised there, nothing runs after
\* it, and the number of queries is bounded by the budget.
C4_PollerTimeout ==
    /\ elapsed_time <= max_wait_time
    /\ nGetFile * wait_interval = elapsed_time
    /\ (pc = "poll" /\ state = "PROCESSING" /\ elapsed_time >= max_wait_time) =>
            (ENABLED PollTimeout /\ ~ENABLED PollQuery /\ ~ENABLED PollRaises)
    /\ (pc = "poll" /\ state = "PROCESSING" /\ elapsed_time < max_wait_time) =>
            ~ENABLED PollTimeout
    /\ status = 408 =>
            /\ pc = "done"
            /\ state = "PROCESSING"
            /\ nAnswers = nProcessing
            /\ elapsed_time = max_wait_time
            /\ nGenerate = 0
            /\ ~ENABLED Next
    /\ (pc = "done" /\ nAnswers >= 1 /\ nAnswers = nProcessing
            /\ nAnswers = nUploads + nGetFile) => status = 408

C4_Witness == status = 408 /\ detail = "timed_out" /\ nAnswers = nGetFile + 1

EndsWithCI(name, ext) ==
    /\ Len(name) >= Len(ext)
    /\ Lower(SubSeq(name, Len(name) - Len(ext) + 1, Len(name))) = ext

EndsAllowed(name) == \E ext \in allowed_extensions : EndsWithCI(name, ext)

\* what stands before the extension holds, after its last "/", a character
\* other than "."
ProperStem(name) ==
    LET stem == SubSeq(name, 1, Len(name) - 4)
    IN  \E i \in 1..Len(stem) :
            /\ stem[i] # "."
            /\ \A j \in i..Len(stem) : stem[j] # "/"

Rejected ==
    /\ pc = "done"
    /\ status = 400
    /\ detail = "unsupported_file_type"
    /\ ~tempCreated
    /\ nUploads = 0
    /\ nGetFile = 0
    /\ nGenerate = 0

\* C5 as stated: a name ending in .mp4, .mov or .avi in any letter case is
\* accepted; any other name is rejected with 400 before any Provider
\* interaction and before the temporary file is created.
C5_Original ==
    pc # "start" =>
        IF EndsAllowed(filename) THEN tempCreated ELSE Rejected

\* C5 as amended: a name ending in .mp4, .mov or .avi in any letter case is
\* accepted when its last path component has a character other than "."
\* before that extension; any other name is rejected with 400 before any
\* Provider interaction and before the temporary file is created.
C5_ExtensionValidation ==
    pc # "start" =>
        IF EndsAllowed(filename) /\ ProperStem(filename)
        THEN tempCreated /\ file_ext \in allowed_extensions /\ detail # "unsupported_file_type"
        ELSE Rejected

C5_Witness ==
    /\ pc = "staged"
    /\ filename = << "/", "X", ".", "M", "o", "V" >>
    /\ file_ext = << ".", "m", "o", "v" >>
    /\ tempCreated

\* C6 as stated: a completion object without caption_effects is given the
\* caption_effects {detected: false, effects: ["none"], text_content: "",
\* description: ""}.
C6_Original ==
    (status = 200 /\ ~Has(ParsedBody.v.caption_effects)) =>
        result.caption_effects =
            JObj([detected |-> JBool(FALSE), effects |-> JList(<< JStr("none") >>),
                  text_content |-> JStr(""), description |-> JStr("")])

\* C6 as amended: a completion object without caption_effects is given the
\* caption_effects {detected: false, effects: ["none"], text_content: "",
\* description: "No text effects analyzed"}.
C6_AbsentCaption ==
    (status = 200 /\ ~Has(ParsedBody.v.caption_effects)) =>
        result.caption_effects =
            JObj([detected |-> JBool(FALSE), effects |-> JList(<< JStr("none") >>),
                  text_content |-> JStr(""),
                  description |-> JStr("No text effects analyzed")])

C6_Witness ==
    /\ status = 200
    /\ ~Has(ParsedBody.v.caption_effects)
    /\ ParsedBody.v.confidence = JNum(170)
    /\ result.caption_effects.v.effects = JList(<< JStr("none") >>)

TransitionTaxonomy == {valid_effects[i] : i \in 1..Len(valid_effects)}
CaptionTaxonomy == {valid_caption_effects[i] : i \in 1..Len(valid_caption_effects)}

WellFormed(r) ==
    /\ r.effect.t = "str"
    /\ r.effect.v \in TransitionTaxonomy
    /\ Cardinality(TransitionTaxonomy) = 10
    /\ r.confidence.t = "num"
    /\ r.confidence.v >= 0
    /\ r.confidence.v <= 100
    /\ Has(r.description)
    /\ r.caption_effects.t = "obj"
    /\ Has(r.caption_effects.v.detected)
    /\ Has(r.caption_effects.v.effects)
    /\ Has(r.caption_effects.v.text_content)
    /\ Has(r.caption_effects.v.description)
    /\ Has(r.model_used)

\* C7: a request ends either in an error status with no result, or in a 200
\* whose result has effect in the ten-value taxonomy, confidence in [0, 1],
\* a description, all four caption_effects fields and model_used.
C7_NoPartialResults ==
    pc = "done" =>
        \/ status \in {400, 408, 500} /\ result = NoResult
        \/ status = 200 /\ WellFormed(result)

C7_Witness ==
    /\ status = 200
    /\ ParsedBody.v.effect = JStr("sparkle_wipe")
    /\ ParsedBody.v.confidence = JNum(170)
    /\ ParsedBody.v.caption_effects.t = "obj"
    /\ ~Has(ParsedBody.v.caption_effects.v.detected)
    /\ result.effect = JStr("unknown")
    /\ result.confidence = JNum(100)

MissingRequired(b) ==
    /\ b.t = "obj"
    /\ \E i \in 1..Len(required_fields) : ~Has(b.v[required_fields[i]])

\* C8: a completion that is no valid JSON once the fences are stripped, or a
\* JSON object without effect, confidence or description, ends the request
\* with 500 and the parse-failure detail, and no result.
C8_ParseErrors ==
    (pc = "done" /\ nGenerate = 1 /\ response_text # NoResponse
        /\ (JsonLoads(Unfence(response_text)).exc # "none" \/ MissingRequired(ParsedBody))) =>
        /\ status = 500
        /\ detail = "parse_failed"
        /\ result = NoResult

C8_Witness ==
    /\ pc = "done"
    /\ response_text = << Fence, Ws, Json(GoodBody), Ws, Fence >>
    /\ status = 500
    /\ detail = "parse_failed"

RECURSIVE KeepMembers(_)
KeepMembers(l) ==
    IF l = << >> THEN << >>
    ELSE IF Head(l).t = "str" /\ Head(l).v \in CaptionTaxonomy
         THEN << Head(l) >> \o KeepMembers(Tail(l))
         ELSE KeepMembers(Tail(l))

\* C9: for a completion whose caption_effects is present, the resulting
\* effects list holds only caption-taxonomy members (the input's, in input
\* order), is ["none"] when the input has no list or no member is left, and
\* is never empty; detected, text_content and description are kept when
\* given; an absent detected is (effects != ["none"]) and an absent
\* text_content or description is "".
C9_PresentCaption ==
    (status = 200 /\ Has(ParsedBody.v.caption_effects)) =>
        LET cin == ParsedBody.v.caption_effects.v
            cout == result.caption_effects.v
        IN  /\ cout.effects.t = "list"
            /\ cout.effects.v # << >>
            /\ \A i \in 1..Len(cout.effects.v) :
                   cout.effects.v[i].t = "str" /\ cout.effects.v[i].v \in CaptionTaxonomy
            /\ cin.effects.t = "list" =>
                   cout.effects.v = IF KeepMembers(cin.effects.v) = << >>
                                    THEN << JStr("none") >>
                                    ELSE KeepMembers(cin.effects.v)
            /\ ~Has(cin.effects) => cout.effects.v = << JStr("none") >>
            /\ cout.detected = IF Has(cin.detected) THEN cin.detected
                               ELSE JBool(cout.effects.v # << JStr("none") >>)
            /\ cout.text_content = IF Has(cin.text_content) THEN cin.text_content
                                   ELSE JStr("")
            /\ cout.description = IF Has(cin.description) THEN cin.description
                                  ELSE JStr("")

C9_Witness ==
    /\ status = 200
    /\ ParsedBody.v.caption_effects.t = "obj"
    /\ ParsedBody.v.caption_effects.v.effects =
           JList(<< JStr("sparkle"), JStr("3d_text") >>)
    /\ ~Has(ParsedBody.v.caption_effects.v.detected)
    /\ result.caption_effects.v.effects = JList(<< JStr("3d_text") >>)
    /\ result.caption_effects.v.detected = JBool(TRUE)

\* C10: once the handle state is observed as FAILED, after the upload or
\* after any number of PROCESSING polls, generate-content is never called,
\* the upload is not repeated, and the request ends with the 400 of the
\* FAILED check, which the generic handler does not turn into a 500.
C10_FailedIsTerminal ==
    state = "FAILED" =>
        /\ nGenerate = 0
        /\ nUploads = 1
        /\ nAnswers = nProcessing + 1
        /\ pc \in {"poll", "done"}
        /\ pc = "poll" => (status = 0 /\ ENABLED ProcessingFailed /\ ~ENABLED PollQuery)
        /\ pc = "done" => (status = 400 /\ detail = "processing_failed_format")

C10_Witness ==
    /\ state = "FAILED"
    /\ elapsed_time = max_wait_time
    /\ pc = "done"
    /\ status = 400

====
